---------------------------- MODULE Spec2Model ----------------------------
(***************************************************************************)
(* Model of plum's method resolver (src/plum/resolver.py) and of the       *)
(* Comparable mixin (src/plum/util.py) it relies on.                       *)
(*                                                                         *)
(* A Resolver holds an ordered list of signatures.  register() appends a   *)
(* signature or replaces the entry equal to it; resolve() filters the      *)
(* applicable signatures, reduces them to the frontier of most specific    *)
(* ones, breaks ties by precedence and, on NotFound, falls back to the     *)
(* owner's ancestors.                                                      *)
(***************************************************************************)
EXTENDS Integers, Sequences, FiniteSets, TLC

VARIABLES
    signatures,     \* Resolver.signatures: list of registered signatures
    is_faithful,    \* Resolver.is_faithful
    owner,          \* Resolver.owner: a class name, or None
    function_name,  \* Resolver.function_name
    seen,           \* history: equality classes of the signatures registered so far
    result          \* what the last call did and returned or raised

vars == <<signatures, is_faithful, owner, function_name, seen, result>>

-----------------------------------------------------------------------------
(* Bounds and input sets *)

\* Largest number of entries the collection is grown to.
MaxSigs == 3

None == "None"

\* Runtime classes of concrete argument values.
ArgClasses == {"int", "float"}

\* Type patterns: the classes signatures are declared with.
Patterns == {"int", "Number"}

\* issubclass(c, d) in the hierarchy int <: Integral <: Number, float <: Number.
\* "Any" stands for a pattern whose test answers yes in both directions whatever
\* the other class is: with it the order is not transitive and equality is no
\* equivalence.
IsSubclass(c, d) ==
    \/ c = d
    \/ d = "Number" /\ c \in {"int", "float", "Integral"}
    \/ d = "Integral" /\ c = "int"
    \/ c = "Any"
    \/ d = "Any"

\* Shapes: the tuples of type patterns signatures are registered under.
Shapes == Patterns \X Patterns

\* The methods signatures are registered for: an implementation and the
\* return type it declares.
MethodF == [implementation |-> "f", return_type |-> "int"]
MethodG == [implementation |-> "g", return_type |-> "float"]
Precedences == {1, 5}

\* A signature of the given types, method, precedence and faithfulness.
Signature(types, method, precedence, faithful) ==
    [types |-> types, implementation |-> method.implementation,
     return_type |-> method.return_type, precedence |-> precedence,
     is_faithful |-> faithful]

\* The signatures register() is called with where precedence is followed:
\* every shape at every precedence.
Signatures == {Signature(t, MethodF, p, TRUE) : t \in Shapes, p \in Precedences}

\* The signatures register() is called with where the method is followed:
\* every shape for every method.
MethodSignatures == {Signature(t, m, 1, TRUE) : t \in Shapes, m \in {MethodF, MethodG}}

\* The signatures register() is called with where faithfulness is followed:
\* faithful and unfaithful ones of every shape.
FaithfulnessSignatures == {Signature(t, MethodF, 1, b) : t \in Shapes, b \in BOOLEAN}

\* The signatures register() is called with where the ancestors of the owner
\* are followed: one of every shape.
OwnedSignatures == {Signature(t, MethodF, 1, TRUE) : t \in Shapes}

\* The signatures register() is called with where the listing of an ambiguity
\* is followed: three mutually incomparable shapes that the same arguments
\* match and a shape above the three, at every precedence.
AmbiguityShapes ==
    {<<"int", "Number">>, <<"Integral", "Integral">>, <<"Number", "int">>,
     <<"Number", "Number">>}
AmbiguitySignatures ==
    {Signature(t, MethodF, p, TRUE) : t \in AmbiguityShapes, p \in Precedences}

\* The signatures register() is called with where an equality that is no
\* equivalence is followed: two shapes that differ and one equal to both,
\* faithful and unfaithful.
BrokenShapes == {<<"int", "int">>, <<"Number", "Number">>, <<"Any", "Any">>}
BrokenSignatures == {Signature(t, MethodF, 1, b) : t \in BrokenShapes, b \in BOOLEAN}

\* The signatures register() is called with where the reduction loop is
\* followed: shapes of which one is below one candidate and incomparable with
\* another.
ReductionShapes ==
    {<<"int", "int">>, <<"Integral", "int">>, <<"int", "Number">>,
     <<"Number", "int">>, <<"Number", "Number">>}
ReductionSignatures == {Signature(t, MethodF, 1, TRUE) : t \in ReductionShapes}

AllSignatures ==
    Signatures \cup MethodSignatures \cup FaithfulnessSignatures
        \cup AmbiguitySignatures \cup ReductionSignatures

\* A placeholder where no signature is meant.
NoSignature ==
    [types |-> <<>>, implementation |-> None, return_type |-> None,
     precedence |-> 0, is_faithful |-> TRUE]

\* Targets of resolve(): a tuple of concrete arguments (given by their runtime
\* classes) or a signature to be encompassed (given by its types).
TupleTargets == {[tag |-> "tuple", args |-> a, types |-> <<>>] : a \in ArgClasses \X ArgClasses}
SignatureTargets == {[tag |-> "signature", args |-> <<>>, types |-> t] : t \in Shapes}
Targets == TupleTargets \cup SignatureTargets

-----------------------------------------------------------------------------
(* The Signature abstraction (plum/signature.py) *)

\* Signature.__le__: a admits a subset of the calls b admits.
Le(a, b) ==
    LET s == a.types
        t == b.types
    IN  /\ Len(s) = Len(t)
        /\ \A i \in 1..Len(s) : IsSubclass(s[i], t[i])

\* Signature.match: every argument is an instance of the pattern at its
\* position.
Match(s, args) ==
    /\ Len(s.types) = Len(args)
    /\ \A i \in 1..Len(args) : IsSubclass(args[i], s.types[i])

-----------------------------------------------------------------------------
(* Comparable (src/plum/util.py) *)

\* __eq__: self <= other <= self
Eq(a, b) == Le(a, b) /\ Le(b, a)

\* __ne__
Ne(a, b) == ~Eq(a, b)

\* A __lt__ without the test for inequality.
LtNotStrict(a, b) == Le(a, b)

\* __lt__
Lt(a, b) == Le(a, b) /\ Ne(a, b)

\* __ge__
Ge(a, b) == Le(b, a)

\* __gt__
Gt(a, b) == Ge(a, b) /\ Ne(a, b)

\* is_comparable
IsComparable(a, b) == Lt(a, b) \/ Eq(a, b) \/ Gt(a, b)

-----------------------------------------------------------------------------
(* Resolver.register (src/plum/resolver.py) *)

\* A register() that takes an entry for equal when it is at most the signature.
ExistingLe(sigs, signature) == {i \in 1..Len(sigs) : Le(sigs[i], signature)}

\* existing = [s == signature for s in self.signatures], as the set of the
\* positions that hold True.
Existing(sigs, signature) == {i \in 1..Len(sigs) : Eq(sigs[i], signature)}

\* existing.index(True)
FirstIndex(S) == CHOOSE i \in S : \A j \in S : i <= j

\* A register() that never looks for an equal entry.
RegisteredSignaturesAppend(sigs, signature) == Append(sigs, signature)

\* A register() that drops the equal entry and appends the signature.
RegisteredSignaturesMoveToEnd(sigs, signature) ==
    Append(SelectSeq(sigs, LAMBDA s : ~Eq(s, signature)), signature)

\* A register() that overwrites the first equal entry however many there are.
RegisteredSignaturesReplaceFirst(sigs, signature) ==
    LET existing == Existing(sigs, signature) IN
    IF existing # {}
    THEN [sigs EXCEPT ![FirstIndex(existing)] = signature]
    ELSE Append(sigs, signature)

\* The collection register() leaves behind.
RegisteredSignatures(sigs, signature) ==
    LET existing == Existing(sigs, signature) IN
    IF existing # {}
    THEN IF Cardinality(existing) # 1
         THEN sigs
         ELSE [sigs EXCEPT ![FirstIndex(existing)] = signature]
    ELSE Append(sigs, signature)

\* The entry register() overwrites, if it overwrites one.
Replaced(sigs, signature) ==
    LET existing == Existing(sigs, signature) IN
    IF Cardinality(existing) = 1 THEN sigs[FirstIndex(existing)] ELSE NoSignature

\* Whether register() raises its AssertionError.
RegisterRaises(sigs, signature) == Cardinality(Existing(sigs, signature)) > 1

\* An aggregate that is true as soon as one signature is faithful.
AnyFaithful(sigs) == sigs = <<>> \/ \E i \in 1..Len(sigs) : sigs[i].is_faithful

\* not any(not s.is_faithful for s in self.signatures)
AllFaithful(sigs) == ~\E i \in 1..Len(sigs) : ~sigs[i].is_faithful

\* The collection after register() is called with each signature of a
\* sequence in turn, on a new Resolver.
RECURSIVE RegisterAll(_)
RegisterAll(order) ==
    IF order = <<>> THEN <<>>
    ELSE RegisteredSignatures(RegisterAll(SubSeq(order, 1, Len(order) - 1)),
                              order[Len(order)])

\* Resolver.__len__
Length(sigs) == Len(sigs)

-----------------------------------------------------------------------------
(* Resolver._find_signature *)

\* A check() that takes every signature for applicable.
CheckNoFilter(s, target) == TRUE

\* A check() that asks for s <= target where target <= s is meant.
CheckReversed(s, target) ==
    IF target.tag = "tuple" THEN Match(s, target.args) ELSE Le(s, target)

\* A check that takes a signature for applicable to a signature target only
\* when the target is strictly below it.
CheckStrict(s, target) ==
    IF target.tag = "tuple" THEN Match(s, target.args) ELSE Lt(target, s)

\* check(s): match for a tuple of arguments, target <= s for a signature.
Check(s, target) ==
    IF target.tag = "tuple" THEN Match(s, target.args) ELSE Le(target, s)

\* [s for s in self.signatures if check(s)]
Applicable(sigs, target) == SelectSeq(sigs, LAMBDA s : Check(s, target))

\* A filter that keeps the strictly more general candidates.
NewCandidatesKeepAll(candidates, signature) == candidates

\* A filter that compares the candidate with the signature, not the signature
\* with the candidate.
NewCandidatesSwapped(candidates, signature) ==
    SelectSeq(candidates, LAMBDA c : ~Lt(c, signature))

\* [c for c in candidates if not signature < c]
NewCandidates(candidates, signature) ==
    SelectSeq(candidates, LAMBDA c : ~Lt(signature, c))

\* A loop body that adds the signature whether or not it is as specific as a
\* candidate.
ReduceStepAlwaysAdd(candidates, signature) ==
    IF ~\E i \in 1..Len(candidates) : IsComparable(candidates[i], signature)
    THEN Append(candidates, signature)
    ELSE Append(SelectSeq(candidates, LAMBDA c : ~Lt(signature, c)), signature)

\* A loop body that adds the signature only when it is as specific as every
\* candidate.
ReduceStepAllBelow(candidates, signature) ==
    IF ~\E i \in 1..Len(candidates) : IsComparable(candidates[i], signature)
    THEN Append(candidates, signature)
    ELSE IF \A i \in 1..Len(candidates) : Le(signature, candidates[i])
         THEN Append(NewCandidates(candidates, signature), signature)
         ELSE NewCandidates(candidates, signature)

\* One pass of the loop body: the candidates after `signature` is considered.
ReduceStep(candidates, signature) ==
    IF ~\E i \in 1..Len(candidates) : IsComparable(candidates[i], signature)
    THEN Append(candidates, signature)
    ELSE IF \E i \in 1..Len(candidates) : Le(signature, candidates[i])
         THEN Append(NewCandidates(candidates, signature), signature)
         ELSE NewCandidates(candidates, signature)

\* The candidates after the first n applicable signatures are considered.
RECURSIVE CandidatesAfter(_, _)
CandidatesAfter(applicable, n) ==
    IF n = 0 THEN <<>>
    ELSE ReduceStep(CandidatesAfter(applicable, n - 1), applicable[n])

\* The candidates when the loop ends.
Candidates(sigs, target) ==
    LET applicable == Applicable(sigs, target) IN
    CandidatesAfter(applicable, Len(applicable))

\* min(precedences) where max(precedences) is meant.
MinPrecedence(candidates) ==
    CHOOSE p \in {candidates[i].precedence : i \in 1..Len(candidates)} :
        \A i \in 1..Len(candidates) : p <= candidates[i].precedence

\* max(precedences)
MaxPrecedence(candidates) ==
    CHOOSE p \in {candidates[i].precedence : i \in 1..Len(candidates)} :
        \A i \in 1..Len(candidates) : candidates[i].precedence <= p

\* The positions of the candidates that hold the maximum precedence.
HoldersOfMax(candidates) ==
    {i \in 1..Len(candidates) : candidates[i].precedence = MaxPrecedence(candidates)}

\* A decision that returns the first holder of the maximum precedence when
\* several hold it.
DecideFirstOnTie(candidates) ==
    IF Len(candidates) = 0
    THEN [kind |-> "NotFound", signature |-> NoSignature, candidates |-> candidates]
    ELSE [kind |-> "ok", signature |-> candidates[FirstIndex(HoldersOfMax(candidates))],
          candidates |-> candidates]

\* A decision whose Ambiguous error lists the holders of the maximum
\* precedence only.
DecideListsTied(candidates) ==
    IF Len(candidates) = 0
    THEN [kind |-> "NotFound", signature |-> NoSignature, candidates |-> candidates]
    ELSE IF Len(candidates) = 1
    THEN [kind |-> "ok", signature |-> candidates[1], candidates |-> candidates]
    ELSE IF Cardinality(HoldersOfMax(candidates)) = 1
    THEN [kind |-> "ok", signature |-> candidates[FirstIndex(HoldersOfMax(candidates))],
          candidates |-> candidates]
    ELSE [kind |-> "Ambiguous", signature |-> NoSignature,
          candidates |-> SelectSeq(candidates,
              LAMBDA c : c.precedence = MaxPrecedence(candidates))]

\* The decision taken on the final candidates: a signature, or an error.
Decide(candidates) ==
    IF Len(candidates) = 0
    THEN [kind |-> "NotFound", signature |-> NoSignature, candidates |-> candidates]
    ELSE IF Len(candidates) = 1
    THEN [kind |-> "ok", signature |-> candidates[1], candidates |-> candidates]
    ELSE IF Cardinality(HoldersOfMax(candidates)) = 1
    THEN [kind |-> "ok", signature |-> candidates[FirstIndex(HoldersOfMax(candidates))],
          candidates |-> candidates]
    ELSE [kind |-> "Ambiguous", signature |-> NoSignature, candidates |-> candidates]

FindSignature(sigs, target) == Decide(Candidates(sigs, target))

-----------------------------------------------------------------------------
(* Resolver._handle_not_found_lookup_error: the classes a Resolver may be owned by *)

Owners == {None, "Child"}
FunctionNames == {"op"}

\* The owners and names where the ancestors of the owner are followed.
AllOwners == {None, "Parent", "Child", "Abstract", "Concrete", "Deep", "Meta"}
AllFunctionNames == {"op", "__init__"}

\* c.__mro__
MRO(c) ==
    CASE c = "Parent"   -> <<"Parent", "object">>
      [] c = "Child"    -> <<"Child", "Parent", "object">>
      [] c = "Abstract" -> <<"Abstract", "object">>
      [] c = "Concrete" -> <<"Concrete", "Abstract", "object">>
      [] c = "Deep"     -> <<"Deep", "Abstract", "Parent", "object">>
      [] c = "Meta"     -> <<"Meta", "type", "object">>
      [] OTHER          -> <<c>>

\* c.__dict__: the names the class declares itself.
ClassDict(c) ==
    CASE c = "Parent"   -> {"op"}
      [] c = "Abstract" -> {"op"}
      [] c = "object"   -> {"__eq__", "__init__"}
      [] c = "type"     -> {"__init__", "__call__"}
      [] OTHER          -> {}

\* getattr(c, name), for a name in c.__dict__
GetAttr(c, name) ==
    CASE c = "Parent" /\ name = "op"   -> "Parent.op"
      [] c = "Abstract" /\ name = "op" -> "Abstract.op"
      [] OTHER                         -> "builtin"

\* getattr(method, "__isabstractmethod__", False)
IsAbstractMethod(method) == method = "Abstract.op"

\* The method the walk through the MRO ends with, None if there is none:
\* the walk over mro[i..], skipping object and type, classes that do not
\* declare the name, and abstract methods.
RECURSIVE WalkMRO(_, _, _)
WalkMRO(mro, i, name) ==
    IF i > Len(mro) THEN None
    ELSE IF mro[i] \in {"object", "type"} THEN WalkMRO(mro, i + 1, name)
    ELSE IF name \notin ClassDict(mro[i]) THEN WalkMRO(mro, i + 1, name)
    ELSE IF IsAbstractMethod(GetAttr(mro[i], name)) THEN WalkMRO(mro, i + 1, name)
    ELSE GetAttr(mro[i], name)

\* The walk that starts at the owner itself.
FallbackMethodFromOwner(own, name) ==
    IF own = None THEN None ELSE WalkMRO(MRO(own), 1, name)

\* Whether the fallback finds a method for this owner.
FallbackMethod(own, name) ==
    IF own = None THEN None ELSE WalkMRO(MRO(own), 2, name)

-----------------------------------------------------------------------------
(* Resolver.resolve *)

\* resolve(target) with the ancestors followed after any failure.
ResolveCatchAll(sigs, own, name, target) ==
    LET found == FindSignature(sigs, target)
        method == FallbackMethod(own, name)
    IN  IF found.kind = "ok"
        THEN [kind |-> "ok", implementation |-> found.signature.implementation,
              return_type |-> found.signature.return_type,
              signature |-> found.signature, candidates |-> found.candidates]
        ELSE IF method # None
        THEN [kind |-> "fallback", implementation |-> method,
              return_type |-> "object",
              signature |-> NoSignature, candidates |-> found.candidates]
        ELSE [kind |-> found.kind, implementation |-> None, return_type |-> None,
              signature |-> NoSignature, candidates |-> found.candidates]

\* What resolve(target) returns or raises: the implementation and return type
\* of the signature found; on NotFound, the ancestor's method with return type
\* object, or the NotFound error again; an Ambiguous error as it is.
Resolve(sigs, own, name, target) ==
    LET found == FindSignature(sigs, target)
        method == FallbackMethod(own, name)
    IN  IF found.kind = "ok"
        THEN [kind |-> "ok", implementation |-> found.signature.implementation,
              return_type |-> found.signature.return_type,
              signature |-> found.signature, candidates |-> found.candidates]
        ELSE IF found.kind = "NotFound" /\ method # None
        THEN [kind |-> "fallback", implementation |-> method,
              return_type |-> "object",
              signature |-> NoSignature, candidates |-> found.candidates]
        ELSE [kind |-> found.kind, implementation |-> None, return_type |-> None,
              signature |-> NoSignature, candidates |-> found.candidates]

-----------------------------------------------------------------------------
(* The state machine *)

NoResult ==
    [op |-> "none", target |-> [tag |-> "none", args |-> <<>>, types |-> <<>>],
     n_equal |-> 0, raised |-> FALSE, replaced |-> NoSignature, was_faithful |-> TRUE,
     kind |-> "none", implementation |-> None, return_type |-> None,
     signature |-> NoSignature, candidates |-> <<>>]

\* The representative of a signature's equality class.
ClassOf(s) == CHOOSE t \in AllSignatures : Eq(t, s)

\* Resolver.__init__
Init ==
    /\ signatures = <<>>
    /\ is_faithful = TRUE
    /\ owner \in Owners
    /\ function_name \in FunctionNames
    /\ seen = {}
    /\ result = NoResult

\* register(signature)
Register(signature) ==
    LET raises == RegisterRaises(signatures, signature)
        after == RegisteredSignatures(signatures, signature)
    IN  /\ Len(after) <= MaxSigs
        /\ signatures' = after
        /\ is_faithful' = IF raises THEN is_faithful ELSE AllFaithful(after)
        /\ seen' = seen \cup {ClassOf(signature)}
        /\ result' = [NoResult EXCEPT !.op = "register",
                                      !.n_equal = Cardinality(Existing(signatures, signature)),
                                      !.raised = raises,
                                      !.replaced = Replaced(signatures, signature),
                                      !.was_faithful = is_faithful]
        /\ UNCHANGED <<owner, function_name>>

\* A resolve(target) that keeps the candidates it found as the collection.
ResolveCallPrunes(target) ==
    /\ LET r == Resolve(signatures, owner, function_name, target) IN
       /\ result' = [NoResult EXCEPT !.op = "resolve",
                                     !.target = target,
                                     !.kind = r.kind,
                                     !.implementation = r.implementation,
                                     !.return_type = r.return_type,
                                     !.signature = r.signature,
                                     !.candidates = r.candidates]
       /\ signatures' = IF r.candidates # <<>> THEN r.candidates ELSE signatures
    /\ UNCHANGED <<is_faithful, owner, function_name, seen>>

\* resolve(target)
ResolveCall(target) ==
    /\ LET r == Resolve(signatures, owner, function_name, target) IN
       result' = [NoResult EXCEPT !.op = "resolve",
                                  !.target = target,
                                  !.kind = r.kind,
                                  !.implementation = r.implementation,
                                  !.return_type = r.return_type,
                                  !.signature = r.signature,
                                  !.candidates = r.candidates]
    /\ UNCHANGED <<signatures, is_faithful, owner, function_name, seen>>

Next ==
    \/ \E signature \in Signatures : Register(signature)
    \/ \E target \in Targets : ResolveCall(target)

Spec == Init /\ [][Next]_vars

\* The same Resolver, registered with signatures that differ in their method.
NextMethods ==
    \/ \E signature \in MethodSignatures : Register(signature)
    \/ \E target \in Targets : ResolveCall(target)

SpecMethods == Init /\ [][NextMethods]_vars

\* The same Resolver, registered with faithful and unfaithful signatures.
NextFaithfulness ==
    \/ \E signature \in FaithfulnessSignatures : Register(signature)
    \/ \E target \in Targets : ResolveCall(target)

SpecFaithfulness == Init /\ [][NextFaithfulness]_vars

\* A Resolver of any owner and name, registered with one signature per shape.
InitOwners ==
    /\ signatures = <<>>
    /\ is_faithful = TRUE
    /\ owner \in AllOwners
    /\ function_name \in AllFunctionNames
    /\ seen = {}
    /\ result = NoResult

NextOwners ==
    \/ \E signature \in OwnedSignatures : Register(signature)
    \/ \E target \in Targets : ResolveCall(target)

SpecOwners == InitOwners /\ [][NextOwners]_vars

\* The same Resolver, registered with the shapes of an ambiguity.
NextAmbiguity ==
    \/ \E signature \in AmbiguitySignatures : Register(signature)
    \/ \E target \in Targets : ResolveCall(target)

SpecAmbiguity == Init /\ [][NextAmbiguity]_vars

\* The same Resolver, registered with the shapes of the reduction loop.
NextReduction ==
    \/ \E signature \in ReductionSignatures : Register(signature)
    \/ \E target \in Targets : ResolveCall(target)

SpecReduction == Init /\ [][NextReduction]_vars

\* The same Resolver, registered with signatures whose equality is no
\* equivalence.
NextBrokenEquality ==
    \/ \E signature \in BrokenSignatures : Register(signature)
    \/ \E target \in Targets : ResolveCall(target)

SpecBrokenEquality == Init /\ [][NextBrokenEquality]_vars

-----------------------------------------------------------------------------
(* Vocabulary of the properties *)

\* Applicability as the contract states it: match for a tuple of concrete
\* arguments, target <= candidate for a signature.
ApplicableTo(s, target) ==
    \/ target.tag = "tuple" /\ Match(s, target.args)
    \/ target.tag = "signature" /\ Le(target, s)

\* The positions of the registered signatures applicable to a target.
ApplicableAt(target) ==
    {i \in 1..Len(signatures) : ApplicableTo(signatures[i], target)}

\* The positions of the applicable signatures that no applicable signature is
\* strictly more specific than.
FrontierAt(target) ==
    {i \in ApplicableAt(target) :
        ~\E j \in ApplicableAt(target) : Lt(signatures[j], signatures[i])}

\* Every order the entries of a collection can be registered in.
Orders(sigs) ==
    {[i \in 1..Len(sigs) |-> sigs[f[i]]] :
        f \in {g \in [1..Len(sigs) -> 1..Len(sigs)] :
                 \A a, b \in 1..Len(sigs) : a # b => g[a] # g[b]}}

\* The elements of a sequence.
Range(seq) == {seq[i] : i \in 1..Len(seq)}

\* The last call was resolve().
Resolved == result.op = "resolve"

\* The last call was register().
Registered == result.op = "register"

-----------------------------------------------------------------------------
(* C1 *)

\* C1: when two registered signatures A and B are both applicable to the
\* target of a resolve() and A < B, the signature resolve() selects is never B,
\* whatever the precedences and the order of registration.
C1_NeverTheMoreGeneral ==
    Resolved =>
        \A a, b \in ApplicableAt(result.target) :
            Lt(signatures[a], signatures[b]) =>
                ~(result.kind = "ok" /\ result.signature = signatures[b])

\* A resolve() that selected A although B, applicable, strictly more general
\* and registered first, holds the higher precedence.
C1_Witness ==
    /\ Resolved
    /\ result.kind = "ok"
    /\ \E a, b \in ApplicableAt(result.target) :
        /\ b < a
        /\ Lt(signatures[a], signatures[b])
        /\ signatures[b].precedence > signatures[a].precedence
        /\ result.signature = signatures[a]

-----------------------------------------------------------------------------
(* C2 *)

\* C2: when exactly one registered signature is applicable to a tuple of
\* concrete arguments, resolve() returns that signature's implementation and
\* return type, in every order the signatures can be registered in.
C2_OnlyApplicableIsReturned ==
    (Resolved /\ result.target.tag = "tuple") =>
        \A a \in ApplicableAt(result.target) :
            ApplicableAt(result.target) = {a} =>
                /\ result.kind = "ok"
                /\ result.implementation = signatures[a].implementation
                /\ result.return_type = signatures[a].return_type
                /\ \A order \in Orders(signatures) :
                     LET r == Resolve(RegisterAll(order), owner, function_name,
                                      result.target)
                     IN  /\ r.kind = "ok"
                         /\ r.implementation = signatures[a].implementation
                         /\ r.return_type = signatures[a].return_type

\* A resolve() of concrete arguments that one signature out of three matches,
\* the other two having another method.
C2_Witness ==
    /\ Resolved
    /\ result.target.tag = "tuple"
    /\ Len(signatures) = 3
    /\ \E a \in 1..Len(signatures) :
        /\ ApplicableAt(result.target) = {a}
        /\ \A b \in 1..Len(signatures) :
             b # a => signatures[b].implementation # signatures[a].implementation
        /\ result.implementation = signatures[a].implementation

-----------------------------------------------------------------------------
(* C3 *)

\* What a resolve() ends with, up to the order of the candidates.
Outcome(r) ==
    [kind |-> r.kind, signature |-> r.signature,
     implementation |-> r.implementation, return_type |-> r.return_type,
     candidates |-> Range(r.candidates)]

\* C3: the outcome of resolve() on a target (the signature returned or the
\* kind of error, and the set of candidates) is the same for every order the
\* registered signatures can be registered in.
C3_OrderIndependent ==
    Resolved =>
        \A order \in Orders(signatures) :
            Outcome(Resolve(RegisterAll(order), owner, function_name, result.target))
                = Outcome(result)

\* A resolve() that ended Ambiguous on three registered signatures of which one
\* was dropped from the candidates.
C3_Witness ==
    /\ Resolved
    /\ result.kind = "Ambiguous"
    /\ Len(signatures) = 3
    /\ Cardinality(ApplicableAt(result.target)) = 3
    /\ Len(result.candidates) = 2

-----------------------------------------------------------------------------
(* C4 *)

\* The positions of the frontier that hold the frontier's highest precedence.
TopOfFrontier(target) ==
    {i \in FrontierAt(target) :
        \A j \in FrontierAt(target) :
            signatures[j].precedence <= signatures[i].precedence}

\* When the frontier holds more than one signature and exactly one of them
\* holds the maximum precedence, resolve() returns that one.
UniqueTopIsReturned ==
    Resolved =>
        \A a \in TopOfFrontier(result.target) :
            (Cardinality(FrontierAt(result.target)) > 1
                /\ TopOfFrontier(result.target) = {a}) =>
                /\ result.kind = "ok"
                /\ result.signature = signatures[a]
                /\ result.implementation = signatures[a].implementation

\* C4 as stated: whenever two applicable signatures are mutually incomparable
\* and one has the strictly higher precedence, resolve() returns that one; and
\* a frontier of more than one signature with a unique holder of the maximum
\* precedence resolves to that holder.
C4_AsStated ==
    /\ Resolved =>
         \A a, b \in ApplicableAt(result.target) :
            (~IsComparable(signatures[a], signatures[b])
                /\ signatures[a].precedence > signatures[b].precedence) =>
                (result.kind = "ok" /\ result.signature = signatures[a])
    /\ UniqueTopIsReturned

\* C4, amended: when two applicable signatures are mutually incomparable, one
\* has the strictly higher precedence and the two are the whole frontier,
\* resolve() returns the one of higher precedence; and a frontier of more than
\* one signature with a unique holder of the maximum precedence resolves to
\* that holder.
C4_HigherPrecedenceOfFrontierWins ==
    /\ Resolved =>
         \A a, b \in ApplicableAt(result.target) :
            (~IsComparable(signatures[a], signatures[b])
                /\ signatures[a].precedence > signatures[b].precedence
                /\ FrontierAt(result.target) = {a, b}) =>
                (result.kind = "ok" /\ result.signature = signatures[a])
    /\ UniqueTopIsReturned

\* A resolve() that returned the later of two incomparable applicable
\* signatures, of higher precedence, a third applicable signature being
\* strictly more general than both.
C4_Witness ==
    /\ Resolved
    /\ result.kind = "ok"
    /\ Cardinality(ApplicableAt(result.target)) = 3
    /\ \E a, b \in FrontierAt(result.target) :
        /\ b < a
        /\ FrontierAt(result.target) = {a, b}
        /\ ~IsComparable(signatures[a], signatures[b])
        /\ signatures[a].precedence > signatures[b].precedence
        /\ result.signature = signatures[a]

-----------------------------------------------------------------------------
(* C5 *)

\* C5 as stated: whenever two applicable signatures are mutually incomparable
\* and have equal precedence, resolve() fails with Ambiguous and the error
\* lists exactly those two.
C5_AsStated ==
    Resolved =>
        \A a, b \in ApplicableAt(result.target) :
            (~IsComparable(signatures[a], signatures[b])
                /\ signatures[a].precedence = signatures[b].precedence) =>
                /\ result.kind = "Ambiguous"
                /\ Len(result.candidates) = 2
                /\ Range(result.candidates) = {signatures[a], signatures[b]}

\* C5, amended: when two applicable signatures are mutually incomparable, have
\* equal precedence and are the whole frontier, resolve() fails with Ambiguous
\* and the error lists exactly those two.
C5_EqualPrecedenceOfFrontierIsAmbiguous ==
    Resolved =>
        \A a, b \in ApplicableAt(result.target) :
            (~IsComparable(signatures[a], signatures[b])
                /\ signatures[a].precedence = signatures[b].precedence
                /\ FrontierAt(result.target) = {a, b}) =>
                /\ result.kind = "Ambiguous"
                /\ Len(result.candidates) = 2
                /\ Range(result.candidates) = {signatures[a], signatures[b]}

\* A resolve() that failed with Ambiguous on two incomparable applicable
\* signatures of equal precedence, the only ones applicable.
C5_Witness ==
    /\ Resolved
    /\ result.kind = "Ambiguous"
    /\ \E a, b \in ApplicableAt(result.target) :
        /\ a # b
        /\ ApplicableAt(result.target) = {a, b}
        /\ ~IsComparable(signatures[a], signatures[b])
        /\ signatures[a].precedence = signatures[b].precedence
        /\ Range(result.candidates) = {signatures[a], signatures[b]}

-----------------------------------------------------------------------------
(* C6 *)

\* C6: a Resolver without an owner fails a resolve() with NotFound if and only
\* if no registered signature is applicable to the target; when one is, the
\* candidates are not empty and the call returns an implementation or fails
\* with Ambiguous.
C6_NotFoundIffNoneApplicable ==
    (Resolved /\ owner = None) =>
        /\ result.kind = "NotFound" <=> ApplicableAt(result.target) = {}
        /\ ApplicableAt(result.target) # {} =>
             /\ result.candidates # <<>>
             /\ result.kind \in {"ok", "Ambiguous"}

\* A resolve() of a signature on an owner-less Resolver that failed with
\* NotFound although signatures are registered, each more specific than the
\* target or incomparable with it.
C6_Witness ==
    /\ Resolved
    /\ owner = None
    /\ result.kind = "NotFound"
    /\ result.target.tag = "signature"
    /\ Len(signatures) >= 2
    /\ \E i \in 1..Len(signatures) : Lt(signatures[i], result.target)

-----------------------------------------------------------------------------
(* C7 *)

\* C7: the collection never holds two entries that are mutually equal, and
\* register() never raises its AssertionError.
C7_NoTwoEqualEntries ==
    /\ \A i, j \in 1..Len(signatures) :
         i # j => ~(Le(signatures[i], signatures[j]) /\ Le(signatures[j], signatures[i]))
    /\ Registered => ~result.raised

\* A register() of a signature equal to one of three entries, of another
\* method than the entry it found.
C7_Witness ==
    /\ Registered
    /\ result.n_equal = 1
    /\ Len(signatures) = 3
    /\ result.replaced.implementation \in {"f", "g"}
    /\ \E i \in 1..Len(signatures) :
        /\ Eq(signatures[i], result.replaced)
        /\ signatures[i].implementation # result.replaced.implementation

-----------------------------------------------------------------------------
(* C8 *)

\* The target that asks for the shape of a signature.
ShapeTarget(s) == [tag |-> "signature", args |-> <<>>, types |-> s.types]

\* C8: a register() of a signature equal to an entry puts the signature at that
\* entry's position and leaves every other entry where it is, so length() is
\* unchanged; a resolve() of that shape then returns the new signature's
\* implementation and return type.
C8_ReplacesInPlace ==
    [][Registered' =>
        \A s \in MethodSignatures :
            Register(s) =>
                \A k \in 1..Len(signatures) :
                    Eq(signatures[k], s) =>
                        /\ Length(signatures') = Length(signatures)
                        /\ signatures'[k] = s
                        /\ \A j \in 1..Len(signatures) :
                             j # k => signatures'[j] = signatures[j]
                        /\ LET r == Resolve(signatures', owner, function_name,
                                            ShapeTarget(s))
                           IN  /\ r.kind = "ok"
                               /\ r.implementation = s.implementation
                               /\ r.return_type = s.return_type]_vars

\* A register() that put a signature of another method in the place of the
\* first of three entries.
C8_Witness ==
    /\ Registered
    /\ result.n_equal = 1
    /\ Len(signatures) = 3
    /\ Eq(signatures[1], result.replaced)
    /\ signatures[1].implementation # result.replaced.implementation
    /\ signatures[1].return_type # result.replaced.return_type

-----------------------------------------------------------------------------
(* C9 *)

\* C9: length() is the number of equality classes among the signatures
\* registered so far; a register() of a signature equal to none registered so
\* far adds one to length(), and a register() of any other leaves it.
C9_LengthCountsClasses ==
    /\ [](Length(signatures) = Cardinality(seen))
    /\ [][Registered' =>
            \A s \in MethodSignatures :
                Register(s) =>
                    Length(signatures') =
                        IF \E c \in seen : Eq(c, s)
                        THEN Length(signatures)
                        ELSE Length(signatures) + 1]_vars

\* A third register() of a signature equal to none registered before.
C9_Witness ==
    /\ Registered
    /\ result.n_equal = 0
    /\ Len(signatures) = 3
    /\ Cardinality(seen) = 3

-----------------------------------------------------------------------------
(* C10 *)

\* C10: the aggregate faithfulness is false if and only if a registered
\* signature is unfaithful; it is true of an empty Resolver.
C10_AggregateFaithfulness ==
    /\ is_faithful = FALSE <=>
         \E i \in 1..Len(signatures) : signatures[i].is_faithful = FALSE
    /\ signatures = <<>> => is_faithful = TRUE

\* A register() that replaced the only unfaithful entry of three by an equal
\* faithful signature and left the Resolver faithful.
C10_Witness ==
    /\ Registered
    /\ result.n_equal = 1
    /\ Len(signatures) = 3
    /\ ~result.was_faithful
    /\ ~result.replaced.is_faithful
    /\ is_faithful

-----------------------------------------------------------------------------
(* C11 *)

\* C11: the ancestors of the owner are followed only when no registered
\* signature is applicable to the target and the Resolver has an owner. When
\* the frontier has several candidates of the highest precedence, resolve
\* raises Ambiguous and returns nothing of an ancestor, whatever the ancestors
\* declare; when no signature is applicable and there is no owner, resolve
\* raises NotFound.
C11_FallbackOnlyAfterNotFoundWithOwner ==
    Resolved =>
        /\ result.kind = "fallback" =>
                ApplicableAt(result.target) = {} /\ owner # None
        /\ Cardinality(TopOfFrontier(result.target)) > 1 =>
                /\ result.kind = "Ambiguous"
                /\ result.implementation = None
                /\ result.return_type = None
        /\ (owner = None /\ ApplicableAt(result.target) = {}) =>
                /\ result.kind = "NotFound"
                /\ result.implementation = None

\* An Ambiguous failure of a Resolver whose owner has an ancestor declaring
\* the operation, and of the same Resolver a target that is not found and
\* falls back to that ancestor.
C11_Witness ==
    /\ Resolved
    /\ result.kind = "Ambiguous"
    /\ owner = "Child"
    /\ function_name = "op"
    /\ FallbackMethod(owner, function_name) = "Parent.op"
    /\ \E target \in Targets :
          Resolve(signatures, owner, function_name, target).kind = "fallback"

-----------------------------------------------------------------------------
(* C12 *)

\* The positions of the classes in the owner's MRO, the owner itself excluded,
\* that are neither object nor type, declare the name themselves and declare
\* it as a method that is not abstract.
Qualifying(own, name) ==
    {i \in 2..Len(MRO(own)) :
        /\ MRO(own)[i] \notin {"object", "type"}
        /\ name \in ClassDict(MRO(own)[i])
        /\ ~IsAbstractMethod(GetAttr(MRO(own)[i], name))}

\* C12: when no registered signature is applicable and the Resolver has an
\* owner, resolve returns the member of the first qualifying class of the
\* owner's MRO together with the return type object; when no class
\* qualifies it raises NotFound.
C12_FirstConcreteAncestor ==
    (Resolved /\ owner # None /\ ApplicableAt(result.target) = {}) =>
        LET qualifying == Qualifying(owner, function_name)
        IN  IF qualifying = {}
            THEN /\ result.kind = "NotFound"
                 /\ result.implementation = None
            ELSE /\ result.kind = "fallback"
                 /\ result.implementation =
                        GetAttr(MRO(owner)[FirstIndex(qualifying)], function_name)
                 /\ result.return_type = "object"

\* The fallback of an owner whose first ancestor declares the operation
\* abstract and whose second ancestor declares it concrete.
C12_Witness ==
    /\ Resolved
    /\ owner = "Deep"
    /\ function_name = "op"
    /\ signatures # <<>>
    /\ result.kind = "fallback"
    /\ result.implementation = "Parent.op"
    /\ result.return_type = "object"

-----------------------------------------------------------------------------
(* C13 *)

\* C13: when the loop has ended, the candidates are exactly the applicable
\* signatures that no other applicable signature is strictly below, each
\* once.
C13_CandidatesAreTheMinimalApplicable ==
    Resolved =>
        /\ Range(result.candidates) =
              {signatures[i] : i \in
                  {i \in ApplicableAt(result.target) :
                      ~\E j \in ApplicableAt(result.target) :
                          /\ Le(signatures[j], signatures[i])
                          /\ ~Le(signatures[i], signatures[j])}}
        /\ \A i, j \in 1..Len(result.candidates) :
              result.candidates[i] = result.candidates[j] => i = j

\* A resolve of three applicable signatures that leaves two candidates: the
\* last has replaced the candidate it is below, next to a candidate it is
\* incomparable with.
C13_Witness ==
    /\ Resolved
    /\ Cardinality(ApplicableAt(result.target)) = 3
    /\ Len(result.candidates) = 2
    /\ \E i \in 1..Len(signatures) :
          /\ signatures[i].types = <<"Number", "int">>
          /\ \E j \in i + 1..Len(signatures) :
                signatures[j].types = <<"Integral", "int">>
    /\ \E k \in 1..2 : result.candidates[k].types = <<"Integral", "int">>
    /\ \E k \in 1..2 : result.candidates[k].types = <<"int", "Number">>

-----------------------------------------------------------------------------
(* C14 *)

\* C14: after each applicable signature is considered, no candidate is
\* strictly below another candidate, and every applicable signature considered
\* so far is a candidate or strictly above a candidate.
C14_LoopInvariant ==
    Resolved =>
        LET applicable == Applicable(signatures, result.target) IN
        \A n \in 0..Len(applicable) :
            LET candidates == CandidatesAfter(applicable, n) IN
            /\ \A i, j \in 1..Len(candidates) :
                  i # j => /\ candidates[i] # candidates[j]
                           /\ ~Lt(candidates[i], candidates[j])
            /\ \A k \in 1..n :
                  \/ \E i \in 1..Len(candidates) : candidates[i] = applicable[k]
                  \/ \E i \in 1..Len(candidates) :
                        /\ Le(candidates[i], applicable[k])
                        /\ ~Le(applicable[k], candidates[i])

\* A loop over three applicable signatures whose candidates grow to two and
\* shrink to one: the last signature is strictly below both candidates.
C14_Witness ==
    /\ Resolved
    /\ LET applicable == Applicable(signatures, result.target) IN
        /\ Len(applicable) = 3
        /\ Len(CandidatesAfter(applicable, 1)) = 1
        /\ Len(CandidatesAfter(applicable, 2)) = 2
        /\ Len(CandidatesAfter(applicable, 3)) = 1
        /\ result.candidates = <<applicable[3]>>

-----------------------------------------------------------------------------
(* C15 *)

\* The pass of the loop over the applicable signatures of a target in which a
\* signature became a candidate.
EnteredAt(target, s) ==
    LET applicable == Applicable(signatures, target) IN
    FirstIndex({n \in 1..Len(applicable) :
                   \E i \in 1..Len(CandidatesAfter(applicable, n)) :
                       CandidatesAfter(applicable, n)[i] = s})

\* C15: resolve raises Ambiguous exactly when the frontier holds more than
\* one signature and more than one of them holds the maximum precedence of
\* the frontier. The error then lists every signature of the frontier once,
\* with its precedence, those below the maximum precedence too, in the order
\* in which they became candidates.
C15_AmbiguousListsTheFrontier ==
    Resolved =>
        /\ result.kind = "Ambiguous" <=>
              /\ Cardinality(FrontierAt(result.target)) > 1
              /\ Cardinality(TopOfFrontier(result.target)) > 1
        /\ result.kind = "Ambiguous" =>
              /\ Range(result.candidates) =
                    {signatures[i] : i \in FrontierAt(result.target)}
              /\ Len(result.candidates) = Cardinality(FrontierAt(result.target))
              /\ \A i, j \in 1..Len(result.candidates) :
                    i < j => EnteredAt(result.target, result.candidates[i])
                               < EnteredAt(result.target, result.candidates[j])

\* An Ambiguous failure that lists three candidates, two of the maximum
\* precedence and, between them, one of a lower precedence.
C15_Witness ==
    /\ Resolved
    /\ result.kind = "Ambiguous"
    /\ Len(result.candidates) = 3
    /\ result.candidates[1].precedence = 5
    /\ result.candidates[2].precedence = 1
    /\ result.candidates[3].precedence = 5

-----------------------------------------------------------------------------
(* C16 *)

\* C16: a register() of a signature that more than one entry is equal to
\* raises the error of the internal check and leaves the collection, the
\* order of its entries and the aggregate faithfulness flag as they were.
C16_SeveralEqualEntriesRaise ==
    [][Registered' =>
         \A s \in BrokenSignatures :
             (/\ Register(s)
              /\ Cardinality({k \in 1..Len(signatures) :
                                 Le(signatures[k], s) /\ Le(s, signatures[k])}) > 1) =>
                 /\ result'.raised
                 /\ result'.replaced = NoSignature
                 /\ signatures' = signatures
                 /\ is_faithful' = is_faithful]_vars

\* A register() that has found two entries equal to the signature and raised,
\* in a collection with an unfaithful entry first.
C16_Witness ==
    /\ Registered
    /\ result.raised
    /\ result.n_equal = 2
    /\ Len(signatures) = 2
    /\ ~signatures[1].is_faithful
    /\ signatures[2].is_faithful
    /\ ~is_faithful

-----------------------------------------------------------------------------
(* C17 *)

\* C17: a resolve() leaves the collection, the order of its entries, the
\* aggregate faithfulness flag, the owner and the function name as they were,
\* whatever it returns or raises; a resolve() of the target that was resolved
\* just before, on the same state, has the same outcome.
C17_ResolveChangesNothing ==
    [][Resolved' =>
         \A target \in Targets :
             ResolveCall(target) =>
                 /\ signatures' = signatures
                 /\ is_faithful' = is_faithful
                 /\ owner' = owner
                 /\ function_name' = function_name
                 /\ (Resolved /\ result.target = target) =>
                        Outcome(result') = Outcome(result)]_vars

\* A resolve() that returned the method of an ancestor, on a Resolver of two
\* entries that returns an implementation for one target and raises Ambiguous
\* for another.
C17_Witness ==
    /\ Resolved
    /\ result.kind = "fallback"
    /\ Len(signatures) = 2
    /\ \E target \in Targets :
          Resolve(signatures, owner, function_name, target).kind = "ok"
    /\ \E target \in Targets :
          Resolve(signatures, owner, function_name, target).kind = "Ambiguous"

-----------------------------------------------------------------------------
(* C18 *)

\* The signatures the Resolver has compared: its entries and the entry the
\* last register() overwrote.
Compared == Range(signatures) \cup {result.replaced}

\* C18: for all signatures A and B the Resolver has compared, A == B exactly
\* when A <= B and B <= A; A < B exactly when A <= B and not B <= A; A > B
\* exactly when B < A; A and B are comparable exactly when A <= B or B <= A,
\* which is the case for B and A too, and for A and A when A <= A.
C18_DerivedRelations ==
    \A a, b \in Compared :
        /\ Eq(a, b) <=> (Le(a, b) /\ Le(b, a))
        /\ Lt(a, b) <=> (Le(a, b) /\ ~Le(b, a))
        /\ Gt(a, b) <=> Lt(b, a)
        /\ IsComparable(a, b) <=> (Le(a, b) \/ Le(b, a))
        /\ IsComparable(a, b) <=> IsComparable(b, a)
        /\ Le(a, a) => IsComparable(a, a)

\* A Resolver whose entries hold a strictly ordered pair and an incomparable
\* pair, after a register() that overwrote an entry with an equal signature
\* of another precedence.
C18_Witness ==
    /\ Registered
    /\ result.n_equal = 1
    /\ \E a \in Range(signatures) :
          /\ a # result.replaced
          /\ Eq(a, result.replaced)
    /\ \E a, b \in Range(signatures) : Lt(a, b) /\ Gt(b, a)
    /\ \E a, b \in Range(signatures) : ~IsComparable(a, b)

-----------------------------------------------------------------------------
(* C19 *)

\* C19: to a target that is a signature exactly the entries the target is at
\* most are applicable, and a resolve() of a target that is an entry of the
\* collection returns that entry with its implementation and its return type,
\* whatever the other entries and the precedences are.
C19_RegisteredSignatureResolvesToItself ==
    (Resolved /\ result.target.tag = "signature") =>
        /\ Range(Applicable(signatures, result.target)) =
              {s \in Range(signatures) : Le(result.target, s)}
        /\ \A i \in 1..Len(signatures) :
              signatures[i].types = result.target.types =>
                  /\ result.kind = "ok"
                  /\ result.signature = signatures[i]
                  /\ result.implementation = signatures[i].implementation
                  /\ result.return_type = signatures[i].return_type

\* A resolve() of an entry of precedence 1 that returned it, with a more
\* general entry and an incomparable entry of precedence 5 in the collection.
C19_Witness ==
    /\ Resolved
    /\ result.target.tag = "signature"
    /\ result.kind = "ok"
    /\ result.signature.types = result.target.types
    /\ result.signature.precedence = 1
    /\ \E s \in Range(signatures) :
          Lt(result.signature, s) /\ s.precedence = 5
    /\ \E s \in Range(signatures) :
          ~IsComparable(result.signature, s) /\ s.precedence = 5

=============================================================================
